---- MODULE Spec2Model ----
(***************************************************************************)
(* Model of layout_cloner.py: a batch script for Pcbnew that moves the     *)
(* clone modules of a template layout onto a grid, duplicates the zones    *)
(* and the tracks of the template area, and saves the board.               *)
(*                                                                         *)
(* Strings are sequences of one-character strings ("D201" is               *)
(* <<"D","2","0","1">>), points are pairs <<x, y>>, lists are sequences.   *)
(***************************************************************************)
EXTENDS Integers, Sequences, FiniteSets, TLC

VARIABLES
    pc,                  \* position of the script
    run,                 \* number of the current invocation of the script
    templateReferences,  \* the reference list read from the file
    templateRefModulo, move_dx, move_dy, clonesX, clonesY,   \* the arguments
    modules, zones, tracks,                                  \* the board in memory
    inputFile,           \* the board document the run loaded
    outputFile,          \* the board document the run saved, or None
    ti,                  \* index of templateRef in templateReferences
    templateModule,      \* index in modules of the template module, 0 for None
    cloneReferences,     \* the clone references of the current templateRef
    counter,             \* index of cloneRef in cloneReferences (from 1)
    templateRect,        \* bounding box of the comment zone, or None
    zi, areaCount,       \* zone loop: index, and the range fixed at its start
    tk, cloneTracks,     \* track loop: index, and the temporary list
    stdout,              \* the diagnostics printed by this run
    error                \* the exception that ended the run, or "None"

args == <<templateRefModulo, move_dx, move_dy, clonesX, clonesY, templateReferences>>
board == <<modules, zones, tracks>>
loops == <<ti, templateModule, cloneReferences, counter, zi, areaCount, tk, cloneTracks>>
vars == <<pc, run, args, board, inputFile, outputFile, loops, templateRect, stdout, error>>

\* Python's None, where a rectangle or a document is expected
None == [none |-> TRUE]

\* ------------------------------------------------------------------ bounds
MaxRefs == 2       \* longest reference list
MaxX == 2          \* most clones in x direction
MaxY == 2          \* most clones in y direction
MaxRuns == 2       \* invocations of the script on its own output
MaxMarkers == 2    \* most zones on the comment layer

\* ------------------------------------------------------ pcbnew layer ids
CommentLayer == 41
F_Cu == 0
B_Cu == 31

\* ------------------------------------------------------------- strings
Digit == {"0", "1", "2", "3", "4", "5", "6", "7", "8", "9"}

DigitVal(c) ==
    CASE c = "0" -> 0 [] c = "1" -> 1 [] c = "2" -> 2 [] c = "3" -> 3 [] c = "4" -> 4
      [] c = "5" -> 5 [] c = "6" -> 6 [] c = "7" -> 7 [] c = "8" -> 8 [] c = "9" -> 9

DigitChar(d) ==
    CASE d = 0 -> "0" [] d = 1 -> "1" [] d = 2 -> "2" [] d = 3 -> "3" [] d = 4 -> "4"
      [] d = 5 -> "5" [] d = 6 -> "6" [] d = 7 -> "7" [] d = 8 -> "8" [] d = 9 -> "9"

\* the longest run of digits of s that starts at position i
RECURSIVE DigitRunAt(_, _)
DigitRunAt(s, i) ==
    IF i > Len(s) \/ s[i] \notin Digit THEN <<>>
    ELSE <<s[i]>> \o DigitRunAt(s, i + 1)

\* re.findall(r"\d+", s), scanning from position i
RECURSIVE FindAllFrom(_, _)
FindAllFrom(s, i) ==
    IF i > Len(s) THEN <<>>
    ELSE IF s[i] \in Digit
         THEN <<DigitRunAt(s, i)>> \o FindAllFrom(s, i + Len(DigitRunAt(s, i)))
         ELSE FindAllFrom(s, i + 1)

ReFindAllDigits(s) == FindAllFrom(s, 1)

\* int(s) of a digit string
RECURSIVE PyInt(_)
PyInt(s) ==
    IF s = <<>> THEN 0
    ELSE 10 * PyInt(SubSeq(s, 1, Len(s) - 1)) + DigitVal(s[Len(s)])

\* str(n) of an integer
RECURSIVE StrNat(_)
StrNat(n) ==
    IF n < 10 THEN <<DigitChar(n)>> ELSE StrNat(n \div 10) \o <<DigitChar(n % 10)>>

PyStr(n) == IF n < 0 THEN <<"-">> \o StrNat(-n) ELSE StrNat(n)

\* pat occurs in s at position i
MatchAt(pat, s, i) ==
    /\ i + Len(pat) - 1 <= Len(s)
    /\ SubSeq(s, i, i + Len(pat) - 1) = pat

\* re.sub(pat, "", s) for a pattern of digits: every occurrence is removed
RECURSIVE ReSubFrom(_, _, _)
ReSubFrom(pat, s, i) ==
    IF i > Len(s) THEN <<>>
    ELSE IF MatchAt(pat, s, i) THEN ReSubFrom(pat, s, i + Len(pat))
    ELSE <<s[i]>> \o ReSubFrom(pat, s, i + 1)

ReSubRemove(pat, s) == ReSubFrom(pat, s, 1)

\* lines 84-89: the clone references of templateRef
CloneRefsOf(templateRef, numberOfClones, refModulo) ==
    LET templateReferenceNumber == Head(ReFindAllDigits(templateRef))
    IN  [i \in 1..(numberOfClones - 1) |->
            ReSubRemove(templateReferenceNumber, templateRef)
                \o PyStr(PyInt(templateReferenceNumber) + i * refModulo)]

\* ------------------------------------------------------------ geometry
\* EDA_RECT.Contains(point): the borders belong to the rectangle
RectContains(r, p) ==
    /\ r.x <= p[1] /\ p[1] <= r.x + r.w
    /\ r.y <= p[2] /\ p[2] <= r.y + r.h

\* RotatePoint for the right angles, in tenths of a degree
Rotate(p, angle) ==
    CASE angle = 0 -> p
      [] angle = 900 -> <<p[2], -p[1]>>
      [] angle = 1800 -> <<-p[1], -p[2]>>
      [] angle = 2700 -> <<-p[2], p[1]>>

FlipLayer(l) == IF l = F_Cu THEN B_Cu ELSE IF l = B_Cu THEN F_Cu ELSE l

\* ------------------------------------------------------------- modules
\* pad.GetPosition(): the pad's place in the footprint, turned by the module's
\* orientation and moved to the module's position
PadPosition(m, pad) ==
    LET r == Rotate(pad.pos0, m.orient)
    IN  <<m.pos[1] + r[1], m.pos[2] + r[2]>>

\* board.FindModuleByReference(ref): index of the first module of that
\* reference, 0 for None
FindModuleByReference(mods, ref) ==
    IF \E j \in 1..Len(mods) : mods[j].ref = ref
    THEN CHOOSE j \in 1..Len(mods) :
            /\ mods[j].ref = ref
            /\ \A k \in 1..(j - 1) : mods[k].ref # ref
    ELSE 0

\* cloneModule.Flip(centre): the module goes to the other side of the board,
\* mirrored about the horizontal line through centre
ModuleFlip(m, centre) ==
    [m EXCEPT !.pos = <<m.pos[1], centre[2] - (m.pos[2] - centre[2])>>,
              !.layer = FlipLayer(m.layer),
              !.orient = (3600 - m.orient) % 3600,
              !.flips = m.flips + 1,
              !.pads = [j \in 1..Len(m.pads) |->
                          [m.pads[j] EXCEPT
                              !.pos0 = <<m.pads[j].pos0[1], -m.pads[j].pos0[2]>>,
                              !.layers = {FlipLayer(l) : l \in m.pads[j].layers}]]]

\* line 96: cloneModule.GetLayer() is not templateModule.GetLayer(); layer ids
\* are small integers, which CPython keeps as single objects
LayerDiffers(clone, template) == clone.layer # template.layer

\* the grid vector with the column and the row taken for each other
GridOffset_Swapped(k, cx, dx, dy) == <<(k \div cx) * dx, (k % cx) * dy>>

\* lines 98, 131, 146: the grid vector of slot k (slot 0 is the template)
GridOffset(k, cx, dx, dy) == <<(k % cx) * dx, (k \div cx) * dy>>

\* the orientation copied before the flip, which mirrors it again
PlaceModule_OrientFirst(clone, template, slot, cx, dx, dy) ==
    LET oriented == [clone EXCEPT !.orient = template.orient]
        flipped == IF LayerDiffers(clone, template)
                   THEN ModuleFlip(oriented, <<1, 1>>)
                   ELSE oriented
        off == GridOffset(slot, cx, dx, dy)
    IN  [flipped EXCEPT !.pos = <<template.pos[1] + off[1], template.pos[2] + off[2]>>]

\* lines 93-100: one clone module moved and oriented after its template
PlaceModule(clone, template, slot, cx, dx, dy) ==
    LET templatePosition == template.pos
        flipped == IF LayerDiffers(clone, template)
                   THEN ModuleFlip(clone, <<1, 1>>)
                   ELSE clone
        off == GridOffset(slot, cx, dx, dy)
        vect == <<templatePosition[1] + off[1], templatePosition[2] + off[2]>>
    IN  [flipped EXCEPT !.pos = vect, !.orient = template.orient]

\* --------------------------------------------------------------- zones
ZonePosition(z) == <<z.x0, z.y0>>                  \* zone.GetPosition()
ZoneBoundingBox(z) == [x |-> z.x0, y |-> z.y0, w |-> z.x1 - z.x0, h |-> z.y1 - z.y0]
HitTestInsideZone(z, p) ==
    /\ z.x0 <= p[1] /\ p[1] <= z.x1
    /\ z.y0 <= p[2] /\ p[2] <= z.y1

\* zone.Duplicate() followed by Move(vector)
ZoneDuplicateMove(z, v) ==
    [z EXCEPT !.x0 = z.x0 + v[1], !.x1 = z.x1 + v[1],
              !.y0 = z.y0 + v[2], !.y1 = z.y1 + v[2]]

\* the search stopping at the first zone on the comment layer
RECURSIVE FindTemplateRect_First(_, _, _)
FindTemplateRect_First(zs, i, rect) ==
    IF i > Len(zs) THEN rect
    ELSE IF zs[i].layer = CommentLayer THEN ZoneBoundingBox(zs[i])
    ELSE FindTemplateRect_First(zs, i + 1, rect)

\* lines 110-115: the bounding box of the last zone on the comment layer
RECURSIVE FindTemplateRect(_, _, _)
FindTemplateRect(zs, i, rect) ==
    IF i > Len(zs) THEN rect
    ELSE FindTemplateRect(zs, i + 1,
            IF zs[i].layer = CommentLayer THEN ZoneBoundingBox(zs[i]) ELSE rect)

\* the scan of a module's pads stopping at the first pad inside
RECURSIVE ScanPads_FirstMatch(_, _, _, _)
ScanPads_FirstMatch(zoneClone, m, j, net) ==
    IF j > Len(m.pads) THEN net
    ELSE IF /\ HitTestInsideZone(zoneClone, PadPosition(m, m.pads[j]))
            /\ zoneClone.layer \in m.pads[j].layers
         THEN m.pads[j].net
         ELSE ScanPads_FirstMatch(zoneClone, m, j + 1, net)

\* lines 133-135: the pads of one module tested against zoneClone in turn
RECURSIVE ScanPads(_, _, _, _)
ScanPads(zoneClone, m, j, net) ==
    IF j > Len(m.pads) THEN net
    ELSE ScanPads(zoneClone, m, j + 1,
            IF /\ HitTestInsideZone(zoneClone, PadPosition(m, m.pads[j]))
               /\ zoneClone.layer \in m.pads[j].layers
            THEN m.pads[j].net ELSE net)

\* lines 132-135: all the modules in turn
RECURSIVE ScanModules(_, _, _, _)
ScanModules(zoneClone, mods, i, net) ==
    IF i > Len(mods) THEN net
    ELSE ScanModules(zoneClone, mods, i + 1, ScanPads(zoneClone, mods[i], 1, net))

\* lines 130-135: the clone of zone for slot k, with its net
ZoneCloneFor(zone, src, k, mods, cx, dx, dy) ==
    LET moved == ZoneDuplicateMove(zone, GridOffset(k, cx, dx, dy))
    IN  [moved EXCEPT !.net = ScanModules(moved, mods, 1, moved.net),
                      !.src = src, !.slot = k]

\* the test of line 128 without its layer condition
ZoneEligible_NoLayerTest(rect, zone) == RectContains(rect, ZonePosition(zone))

\* line 128: the zone is inside the template area and is not the comment zone
ZoneEligible(rect, zone) ==
    RectContains(rect, ZonePosition(zone)) /\ zone.layer # CommentLayer

\* lines 128-136: the clones appended for one zone
ZoneClonesOf(rect, zone, src, numberOfClones, mods, cx, dx, dy) ==
    IF ZoneEligible(rect, zone)
    THEN [k \in 1..(numberOfClones - 1) |-> ZoneCloneFor(zone, src, k, mods, cx, dx, dy)]
    ELSE <<>>

\* -------------------------------------------------------------- tracks
\* track.HitTest(rect): the track touches the rectangle (tracks here run along
\* an axis, so the segment meets the rectangle where its extent does)
Min(a, b) == IF a < b THEN a ELSE b
Max(a, b) == IF a > b THEN a ELSE b

\* a hit test that asks for an end of the track inside the rectangle
TrackHitTest_EndInside(t, r) == RectContains(r, t.start) \/ RectContains(r, t.end)

TrackHitTest(t, r) ==
    /\ Min(t.start[1], t.end[1]) <= r.x + r.w /\ Max(t.start[1], t.end[1]) >= r.x
    /\ Min(t.start[2], t.end[2]) <= r.y + r.h /\ Max(t.start[2], t.end[2]) >= r.y

\* track.Duplicate() followed by Move(vector)
TrackDuplicateMove(t, v) ==
    [t EXCEPT !.start = <<t.start[1] + v[1], t.start[2] + v[2]>>,
              !.end = <<t.end[1] + v[1], t.end[2] + v[2]>>]

\* lines 143-147: the clones collected for one track
TrackClonesOf(rect, track, src, numberOfClones, cx, dx, dy) ==
    IF TrackHitTest(track, rect)
    THEN [k \in 1..(numberOfClones - 1) |->
            [TrackDuplicateMove(track, GridOffset(k, cx, dx, dy))
                EXCEPT !.src = src, !.slot = k]]
    ELSE <<>>

\* ------------------------------------------------------ the input boards
D201 == <<"D", "2", "0", "1">>
R1A == <<"R", "1", "A">>
REF == <<"R", "E", "F">>
RefPool == {D201, R1A, REF}
Steps == {100}
Pitches == {<<10, 10>>, <<0, 10>>, <<10, 0>>}

\* the reference lists: up to MaxRefs references, each named once
RefLists ==
    {s \in UNION {[1..n -> RefPool] : n \in 1..MaxRefs} :
        \A i, j \in 1..Len(s) : i # j => s[i] # s[j]}

Pad(p, net, layers) == [pos0 |-> p, net |-> net, layers |-> layers]
Module(ref, p, layer, orient, pads) ==
    [ref |-> ref, pos |-> p, layer |-> layer, orient |-> orient, flips |-> 0,
     pads |-> pads]
Zone(layer, net, x0, y0, x1, y1) ==
    [layer |-> layer, net |-> net, x0 |-> x0, y0 |-> y0, x1 |-> x1, y1 |-> y1,
     src |-> 0, slot |-> 0]
Track(a, b) == [start |-> a, end |-> b, src |-> 0, slot |-> 0]

Diode(ref, p, layer, orient) ==
    Module(ref, p, layer, orient,
           IF layer = F_Cu
           THEN <<Pad(<<0, 0>>, "GND", {F_Cu}), Pad(<<1, 0>>, "5V", {F_Cu})>>
           ELSE <<Pad(<<0, 0>>, "GND", {B_Cu}), Pad(<<1, 0>>, "5V", {B_Cu})>>)

ModuleBoards ==
    { <<Diode(D201, <<2, 3>>, F_Cu, 900),
        Diode(<<"D", "3", "0", "1">>, <<40, 40>>, B_Cu, 0),
        Module(<<"D", "4", "0", "1">>, <<50, 40>>, F_Cu, 1800,
               <<Pad(<<0, 0>>, "GND", {F_Cu}), Pad(<<1, 0>>, "5V", {B_Cu})>>),
        Module(R1A, <<6, 6>>, F_Cu, 0, <<Pad(<<0, 0>>, "5V", {F_Cu, B_Cu})>>),
        Module(<<"R", "1", "0", "1", "A">>, <<60, 40>>, B_Cu, 900,
               <<Pad(<<0, 0>>, "5V", {F_Cu, B_Cu})>>),
        Module(REF, <<70, 40>>, F_Cu, 0, <<>>)>>,
      <<Diode(<<"D", "4", "0", "1">>, <<50, 40>>, B_Cu, 2700),
        Diode(D201, <<2, 3>>, B_Cu, 0),
        Diode(<<"D", "3", "0", "1">>, <<40, 40>>, B_Cu, 900),
        Diode(<<"D", "5", "0", "1">>, <<40, 50>>, F_Cu, 0),
        Module(<<"R", "A", "1", "0", "1">>, <<60, 40>>, B_Cu, 900,
               <<Pad(<<0, 0>>, "GND", {F_Cu, B_Cu})>>),
        Module(R1A, <<6, 6>>, F_Cu, 1800, <<Pad(<<0, 0>>, "5V", {F_Cu, B_Cu})>>)>> }

\* the k-th zone on the comment layer
Marker(k) == Zone(CommentLayer, "", 20 * (k - 1), 0, 20 * (k - 1) + 8, 8)

ZoneBoard(markers) ==
    <<Zone(F_Cu, "", 1, 1, 4, 4)>>
        \o (IF markers >= 1 THEN <<Marker(1)>> ELSE <<>>)
        \o <<Zone(B_Cu, "5V", 21, 1, 24, 4)>>
        \o [k \in 1..(markers - 1) |-> Marker(k + 1)]

TrackBoard ==
    <<Track(<<2, 2>>, <<3, 2>>), Track(<<-2, 5>>, <<12, 5>>),
      Track(<<8, 9>>, <<8, 8>>), Track(<<30, 30>>, <<30, 35>>)>>

\* LoadBoard(file): the document in memory, nothing of an earlier run kept
LoadBoard(file) ==
    [modules |-> [j \in 1..Len(file.modules) |-> [file.modules[j] EXCEPT !.flips = 0]],
     zones |-> [j \in 1..Len(file.zones) |-> [file.zones[j] EXCEPT !.src = 0, !.slot = 0]],
     tracks |-> [j \in 1..Len(file.tracks) |-> [file.tracks[j] EXCEPT !.src = 0, !.slot = 0]]]

numberOfClones == clonesX * clonesY

\* lines 44-78: the arguments are parsed and the board is loaded
Start(file) ==
    /\ pc = "modules"
    /\ inputFile = file
    /\ modules = LoadBoard(file).modules
    /\ zones = LoadBoard(file).zones
    /\ tracks = LoadBoard(file).tracks
    /\ outputFile = None
    /\ ti = 1 /\ templateModule = 0 /\ cloneReferences = <<>> /\ counter = 1
    /\ templateRect = None
    /\ zi = 1 /\ areaCount = 0
    /\ tk = 1 /\ cloneTracks = <<>>
    /\ stdout = <<>>
    /\ error = "None"

Init ==
    /\ run = 1
    /\ templateReferences \in RefLists
    /\ templateRefModulo \in Steps
    /\ \E p \in Pitches : move_dx = p[1] /\ move_dy = p[2]
    /\ clonesX \in 1..MaxX
    /\ clonesY \in 1..MaxY
    /\ \E mods \in ModuleBoards, markers \in 0..MaxMarkers :
          Start([modules |-> mods, zones |-> ZoneBoard(markers), tracks |-> TrackBoard])

\* ------------------------------------------------------------- actions
\* lines 81-90 and 103-104: the next templateRef is looked up and its clone
\* references are generated; a reference without a digit ends the run in the
\* IndexError of pop(0) on an empty list
TemplateLookup ==
    /\ pc = "modules"
    /\ ti <= Len(templateReferences)
    /\ LET templateRef == templateReferences[ti]
           found == FindModuleByReference(modules, templateRef)
       IN  IF found = 0
           THEN /\ stdout' = Append(stdout, <<"template not found", templateRef>>)
                /\ ti' = ti + 1
                /\ UNCHANGED <<pc, templateModule, cloneReferences, counter, error>>
           ELSE IF ReFindAllDigits(templateRef) = <<>>
           THEN /\ pc' = "crashed"
                /\ error' = "IndexError"
                /\ templateModule' = found
                /\ cloneReferences' = <<>>
                /\ UNCHANGED <<ti, counter, stdout>>
           ELSE /\ templateModule' = found
                /\ cloneReferences' =
                       CloneRefsOf(templateRef, numberOfClones, templateRefModulo)
                /\ counter' = 1
                /\ stdout' = Append(stdout, <<"generated", templateRef>>)
                /\ IF numberOfClones - 1 >= 1
                   THEN pc' = "clones" /\ ti' = ti
                   ELSE pc' = "modules" /\ ti' = ti + 1
                /\ UNCHANGED error
    /\ UNCHANGED <<run, args, board, inputFile, outputFile, templateRect,
                   zi, areaCount, tk, cloneTracks>>

\* lines 92-102: the next clone module is moved after the template, or reported
PlaceClone ==
    /\ pc = "clones"
    /\ counter <= Len(cloneReferences)
    /\ LET cloneRef == cloneReferences[counter]
           found == FindModuleByReference(modules, cloneRef)
       IN  IF found # 0
           THEN /\ modules' = [modules EXCEPT ![found] =
                                  PlaceModule(modules[found], modules[templateModule],
                                              counter, clonesX, move_dx, move_dy)]
                /\ UNCHANGED stdout
           ELSE /\ stdout' = Append(stdout, <<"clone not found", cloneRef>>)
                /\ UNCHANGED modules
    /\ counter' = counter + 1
    /\ IF counter = Len(cloneReferences)
       THEN pc' = "modules" /\ ti' = ti + 1
       ELSE pc' = "clones" /\ ti' = ti
    /\ UNCHANGED <<run, args, zones, tracks, inputFile, outputFile, templateModule,
                   cloneReferences, templateRect, zi, areaCount, tk, cloneTracks, error>>

\* lines 109-119: the comment zone is searched; without one the script quits
FindCommentZone ==
    /\ pc = "modules"
    /\ ti > Len(templateReferences)
    /\ templateRect' = FindTemplateRect(zones, 1, None)
    /\ IF templateRect' = None
       THEN /\ pc' = "aborted"
            /\ stdout' = Append(stdout, <<"Template Rect not found!", <<>>>>)
            /\ UNCHANGED <<zi, areaCount>>
       ELSE /\ pc' = "zones"
            /\ zi' = 1
            /\ areaCount' = Len(zones)
            /\ UNCHANGED stdout
    /\ UNCHANGED <<run, args, board, inputFile, outputFile, ti, templateModule,
                   cloneReferences, counter, tk, cloneTracks, error>>

\* lines 124-136: the next zone of the range fixed at the start of the loop is
\* cloned into every target area, each clone added to the board
CloneZone ==
    /\ pc = "zones"
    /\ zi <= areaCount
    /\ zones' = zones \o ZoneClonesOf(templateRect, zones[zi], zi, numberOfClones,
                                      modules, clonesX, move_dx, move_dy)
    /\ zi' = zi + 1
    /\ IF zi = areaCount
       THEN pc' = "tracks" /\ tk' = 1 /\ cloneTracks' = <<>>
       ELSE pc' = "zones" /\ UNCHANGED <<tk, cloneTracks>>
    /\ UNCHANGED <<run, args, modules, tracks, inputFile, outputFile, ti,
                   templateModule, cloneReferences, counter, templateRect, areaCount,
                   stdout, error>>

\* lines 142-147: the next track is tested and its clones go to the temporary list
ScanTrack ==
    /\ pc = "tracks"
    /\ tk <= Len(tracks)
    /\ cloneTracks' = cloneTracks \o TrackClonesOf(templateRect, tracks[tk], tk,
                                                   numberOfClones, clonesX, move_dx, move_dy)
    /\ tk' = tk + 1
    /\ UNCHANGED <<pc, run, args, board, inputFile, outputFile, ti, templateModule,
                   cloneReferences, counter, templateRect, zi, areaCount, stdout, error>>

\* the track pass ending without the append of lines 148-149
AppendCloneTracks_Forgotten ==
    /\ pc = "tracks"
    /\ tk > Len(tracks)
    /\ pc' = "save"
    /\ UNCHANGED <<run, args, board, inputFile, outputFile, loops,
                   templateRect, stdout, error>>

\* lines 148-149: the temporary list is appended to the board
AppendCloneTracks ==
    /\ pc = "tracks"
    /\ tk > Len(tracks)
    /\ tracks' = tracks \o cloneTracks
    /\ pc' = "save"
    /\ UNCHANGED <<run, args, modules, zones, inputFile, outputFile, loops,
                   templateRect, stdout, error>>

\* lines 153-154: the board is saved
Save ==
    /\ pc = "save"
    /\ outputFile' = [modules |-> modules, zones |-> zones, tracks |-> tracks]
    /\ pc' = "done"
    /\ UNCHANGED <<run, args, board, inputFile, loops, templateRect, stdout, error>>

\* the script is run again, with the same arguments, on the board it saved
RunAgain ==
    /\ pc = "done"
    /\ run < MaxRuns
    /\ run' = run + 1
    /\ UNCHANGED args
    /\ pc' = "modules"
    /\ inputFile' = outputFile
    /\ modules' = LoadBoard(outputFile).modules
    /\ zones' = LoadBoard(outputFile).zones
    /\ tracks' = LoadBoard(outputFile).tracks
    /\ outputFile' = None
    /\ ti' = 1 /\ templateModule' = 0 /\ cloneReferences' = <<>> /\ counter' = 1
    /\ templateRect' = None
    /\ zi' = 1 /\ areaCount' = 0
    /\ tk' = 1 /\ cloneTracks' = <<>>
    /\ stdout' = <<>>
    /\ error' = "None"

Next ==
    \/ TemplateLookup
    \/ PlaceClone
    \/ FindCommentZone
    \/ CloneZone
    \/ ScanTrack
    \/ AppendCloneTracks
    \/ Save
    \/ RunAgain

Spec == Init /\ [][Next]_vars

\* ------------------------------------------------- notions of the claims
Loaded == LoadBoard(inputFile)
MarkerCount == Cardinality({j \in 1..Len(Loaded.zones) : Loaded.zones[j].layer = CommentLayer})
PastMarkerSearch == pc \in {"zones", "tracks", "save", "done"}
Ended == pc \in {"done", "aborted", "crashed"}
HasDigit(s) == \E j \in 1..Len(s) : s[j] \in Digit
Slots == 1..(numberOfClones - 1)

\* the template identifier with its first digit run replaced in place
FirstDigitAt(s) == CHOOSE j \in 1..Len(s) : s[j] \in Digit /\ \A k \in 1..(j - 1) : s[k] \notin Digit
ReplacedInPlace(s, add) ==
    LET a == FirstDigitAt(s)
        numeral == DigitRunAt(s, a)
    IN  SubSeq(s, 1, a - 1) \o PyStr(PyInt(numeral) + add)
            \o SubSeq(s, a + Len(numeral), Len(s))

\* C1: every clone identifier is its template identifier with the first digit
\* run replaced in place by numeral + i * offsetStep, the text before and after
\* the run kept
C1_ReferenceMapping ==
    pc = "clones" =>
        \A i \in 1..Len(cloneReferences) :
            cloneReferences[i] =
                ReplacedInPlace(templateReferences[ti], i * templateRefModulo)

\* C2: output is written exactly when a marker region exists: without one no
\* output is ever written, with one every run that ends has saved
C2_OutputIffMarker ==
    /\ MarkerCount = 0 => (outputFile = None /\ pc \notin {"save", "done"})
    /\ (MarkerCount >= 1 /\ Ended) => (pc = "done" /\ outputFile # None)

\* C3 as stated: with a number of marker regions other than one the run aborts
\* without cloning zones or tracks and without saving
C3_ExactlyOneMarkerOrAbort ==
    MarkerCount # 1 =>
        /\ ~PastMarkerSearch
        /\ zones = Loaded.zones /\ tracks = Loaded.tracks
        /\ outputFile = None

LastMarker ==
    CHOOSE j \in 1..Len(Loaded.zones) :
        /\ Loaded.zones[j].layer = CommentLayer
        /\ \A k \in (j + 1)..Len(Loaded.zones) : Loaded.zones[k].layer # CommentLayer

\* C3 amended: without a marker region the run aborts at the marker search,
\* nothing cloned and nothing saved; with one or more the run does not abort
\* there and the template area is the bounding box of the last marker region
C3_NoMarkerAborts ==
    /\ MarkerCount = 0 =>
          /\ ~PastMarkerSearch
          /\ zones = Loaded.zones /\ tracks = Loaded.tracks
          /\ outputFile = None
          /\ templateRect = None
    /\ MarkerCount >= 1 =>
          /\ pc # "aborted"
          /\ PastMarkerSearch =>
                templateRect = ZoneBoundingBox(Loaded.zones[LastMarker])

C3_Witness == pc = "aborted" /\ MarkerCount = 0 /\ Len(stdout) > 0

\* C4: a template identifier without a digit ends the reference mapping in a
\* reported MalformedIdentifier failure
C4_MalformedReported ==
    \A j \in 1..Len(templateReferences) :
        (/\ ~HasDigit(templateReferences[j])
         /\ (j < ti \/ (j = ti /\ pc # "modules")))
            => error = "MalformedIdentifier"

\* the offsets of the slots 1..X*Y-1
SlotOffsets == {GridOffset(k, clonesX, move_dx, move_dy) : k \in Slots}

\* C5 as stated: the offsets of the slots are X*Y-1 pairwise distinct pairs
\* (col*dx, row*dy) with col in [0,X) and row in [0,Y)
C5_OffsetsDistinct ==
    pc = "done" =>
        /\ Cardinality(SlotOffsets) = numberOfClones - 1
        /\ \A o \in SlotOffsets :
              \E col \in 0..(clonesX - 1), row \in 0..(clonesY - 1) :
                  o = <<col * move_dx, row * move_dy>>

\* C5 amended: every slot k has its own cell (col, row) of the grid, col in
\* [0,X) and row in [0,Y), other than the template's cell, and its offset is
\* (col*dx, row*dy); the offsets are pairwise distinct when dx and dy are not 0
C5_GridOffsets ==
    /\ \A k \in Slots :
          \E col \in 0..(clonesX - 1), row \in 0..(clonesY - 1) :
              /\ <<col, row>> # <<0, 0>>
              /\ k = row * clonesX + col
              /\ GridOffset(k, clonesX, move_dx, move_dy) = <<col * move_dx, row * move_dy>>
    /\ (move_dx # 0 /\ move_dy # 0) => Cardinality(SlotOffsets) = numberOfClones - 1

C5_Witness ==
    /\ pc = "done" /\ clonesX = 2 /\ clonesY = 2 /\ move_dx = 10 /\ move_dy = 10
    /\ \E a, b, c \in 1..Len(zones) :
          /\ zones[a].src = 1 /\ zones[b].src = 1 /\ zones[c].src = 1
          /\ ZonePosition(zones[a]) = <<11, 1>>
          /\ ZonePosition(zones[b]) = <<1, 11>>
          /\ ZonePosition(zones[c]) = <<11, 11>>

\* the clone module the next step of the placement loop resolves, 0 for none
NextClone ==
    IF pc = "clones" /\ counter <= Len(cloneReferences)
    THEN FindModuleByReference(modules, cloneReferences[counter])
    ELSE 0

\* C6: a clone that resolves is flipped exactly once if its side differs from
\* its template's and not at all otherwise, ends on the other side exactly in
\* the first case, and has the template's rotation afterwards
C6_FlipOnceCopyRotation ==
    [][NextClone # 0 =>
          LET before == modules[NextClone]
              after == modules'[NextClone]
              template == modules[templateModule]
              differs == before.layer # template.layer
          IN  /\ after.flips = before.flips + (IF differs THEN 1 ELSE 0)
              /\ (after.layer # before.layer) <=> differs
              /\ after.layer = template.layer
              /\ after.orient = template.orient
              /\ modules'[templateModule].orient = template.orient]_vars

C6_Witness ==
    /\ pc = "clones" /\ counter > 1
    /\ \E j \in 1..Len(modules) :
          /\ modules[j].ref = cloneReferences[counter - 1]
          /\ modules[j].flips = 1
          /\ modules[j].layer # Loaded.modules[j].layer
          /\ modules[j].layer = modules[templateModule].layer
          /\ modules[j].orient = modules[templateModule].orient
          /\ modules[j].orient # (3600 - Loaded.modules[j].orient) % 3600

\* the pads (module index, pad index) inside zone z and on its layer
PadsInside(z) ==
    {q \in UNION {{<<i, j>> : j \in 1..Len(modules[i].pads)} : i \in 1..Len(modules)} :
        /\ HitTestInsideZone(z, PadPosition(modules[q[1]], modules[q[1]].pads[q[2]]))
        /\ z.layer \in modules[q[1]].pads[q[2]].layers}
PadNet(q) == modules[q[1]].pads[q[2]].net
Later(q, r) == q[1] > r[1] \/ (q[1] = r[1] /\ q[2] > r[2])
Clones(list) == {j \in 1..Len(list) : list[j].src # 0}

\* C7: the net of a duplicated zone is the net of the last pad, in board order
\* of the modules and pad order within a module, that lies inside the
\* duplicate and on its layer; without such a pad it is the original's net
C7_LastMatchWins ==
    PastMarkerSearch =>
        \A d \in Clones(zones) :
            IF PadsInside(zones[d]) = {}
            THEN zones[d].net = zones[zones[d].src].net
            ELSE \E q \in PadsInside(zones[d]) :
                    /\ zones[d].net = PadNet(q)
                    /\ \A r \in PadsInside(zones[d]) : ~Later(r, q)

C7_Witness ==
    /\ pc = "tracks"
    /\ \E d \in Clones(zones) :
          /\ \E q, r \in PadsInside(zones[d]) :
                PadNet(q) = "GND" /\ PadNet(r) = "5V" /\ Later(r, q)
          /\ zones[d].net = "5V"
    /\ \E d \in Clones(zones) :
          /\ \A q \in PadsInside(zones[d]) : PadNet(q) = "GND"
          /\ PadsInside(zones[d]) # {}
          /\ zones[d].net = "GND"

\* some point of track t lies in rectangle r
Touches(t, r) ==
    \E x \in Min(t.start[1], t.end[1])..Max(t.start[1], t.end[1]),
       y \in Min(t.start[2], t.end[2])..Max(t.start[2], t.end[2]) :
        RectContains(r, <<x, y>>)
Moved(p, v) == <<p[1] + v[1], p[2] + v[2]>>

EligibleZone(f, r, j) ==
    RectContains(r, <<f.zones[j].x0, f.zones[j].y0>>) /\ f.zones[j].layer # CommentLayer
EligibleTrack(f, r, j) == Touches(f.tracks[j], r)

\* C9: a run on the output of an earlier run does not reproduce its input: with
\* a marker, X*Y >= 2 and an eligible zone or track, every run leaves more zones
\* and tracks than it loaded, so the second output differs from the first
C9_NotIdempotent ==
    (pc = "done" /\ numberOfClones >= 2) =>
        LET someZone == \E j \in 1..Len(inputFile.zones) : EligibleZone(inputFile, templateRect, j)
            someTrack == \E j \in 1..Len(inputFile.tracks) : EligibleTrack(inputFile, templateRect, j)
        IN  /\ someZone => Len(outputFile.zones) > Len(inputFile.zones)
            /\ someTrack => Len(outputFile.tracks) > Len(inputFile.tracks)
            /\ (someZone \/ someTrack) => LoadBoard(outputFile) # LoadBoard(inputFile)

C9_Witness ==
    /\ pc = "done" /\ run = 2 /\ numberOfClones >= 2
    /\ Len(outputFile.zones) > Len(inputFile.zones)
    /\ Len(outputFile.tracks) > Len(inputFile.tracks)

\* C10: every zone the run loaded whose reference point is in the marker box,
\* the marker excepted, gets one duplicate per slot, moved by the slot's offset;
\* no other zone gets one, and the loaded zones stay as they were
C10_ZoneClones ==
    LET n0 == Len(Loaded.zones)
        eligible == {j \in 1..n0 : EligibleZone(Loaded, templateRect, j)}
    IN  /\ ~PastMarkerSearch => zones = Loaded.zones
        /\ PastMarkerSearch =>
              /\ SubSeq(zones, 1, n0) = Loaded.zones
              /\ \A d \in (n0 + 1)..Len(zones) : zones[d].src \in eligible
        /\ pc \in {"tracks", "save", "done"} =>
              /\ Len(zones) = n0 + Cardinality(eligible) * (numberOfClones - 1)
              /\ \A j \in eligible, k \in Slots :
                    \E d \in (n0 + 1)..Len(zones) :
                        /\ zones[d].src = j /\ zones[d].slot = k
                        /\ zones[d].layer = zones[j].layer
                        /\ <<zones[d].x0, zones[d].y0>> = Moved(<<zones[j].x0, zones[j].y0>>,
                               <<(k % clonesX) * move_dx, (k \div clonesX) * move_dy>>)
                        /\ <<zones[d].x1, zones[d].y1>> = Moved(<<zones[j].x1, zones[j].y1>>,
                               <<(k % clonesX) * move_dx, (k \div clonesX) * move_dy>>)

C10_Witness ==
    /\ pc = "tracks" /\ numberOfClones = 4
    /\ Len(zones) = Len(Loaded.zones) + 3
    /\ \E j \in 1..Len(Loaded.zones) :
          zones[j].layer # CommentLayer /\ ~EligibleZone(Loaded, templateRect, j)

====
